---- MODULE Spec2Model ----
(***************************************************************************)
(* Ceres6 Cheat Sheet Search Tool (src/Ceres6SearchApp.py).                *)
(*                                                                         *)
(* A Python str is a sequence of one-character strings.  A Python object   *)
(* that may be a str, None or the float NaN of an empty CSV cell is a      *)
(* record [type, val].                                                     *)
(***************************************************************************)
EXTENDS Integers, Sequences, FiniteSets, TLC

VARIABLES
    pc,        \* position of the script run
    columns,   \* df.columns
    df,        \* the rows of the parsed table, in order
    q,         \* st.text_input
    top_k,     \* st.slider
    q_norm, q_tokens,
    scored,    \* the list built and sorted at lines 118-123
    best,      \* scored[:top_k]
    shown,     \* what the script has rendered
    err,       \* the exception or st.error that ended the run
    text,      \* an argument of normalize
    once,      \* normalize(text)
    twice      \* normalize(normalize(text))

vars == <<pc, columns, df, q, top_k, q_norm, q_tokens, scored, best, shown, err,
          text, once, twice>>

appVars == <<columns, df, q, top_k, q_norm, q_tokens, scored, best, shown, err>>

normVars == <<text, once, twice>>

\* ---------- Bounds ----------
MaxLen == 3

MaxRows == 3

MaxTopK == 4

\* ---------- Config ----------
STOPWORDS == {
    <<"w","h","e","r","e">>, <<"c","a","n">>, <<"i">>, <<"f","i","n","d">>, <<"t","h","e">>, <<"a">>, <<"a","n">>, <<"o","f">>, <<"t","o">>, <<"f","o","r">>,
    <<"i","n">>, <<"o","n">>, <<"a","n","d">>, <<"o","r">>, <<"i","s">>, <<"a","r","e">>, <<"d","o">>, <<"d","o","e","s">>, <<"w","h","a","t">>, <<"w","h","a","t","s">>,
    <<"p","l","e","a","s","e">>, <<"m","e">>, <<"s","h","o","w">>, <<"t","e","l","l">> }

\* the dict in insertion order
ENTITY_HINTS == <<
    [ent |-> <<"a","g","e","n","c","y">>,  words |-> {<<"a","g","e","n","c","y">>, <<"a","g","e","n","c","i","e","s">>}],
    [ent |-> <<"d","o","n","o","r","s">>,  words |-> {<<"d","o","n","o","r">>, <<"d","o","n","o","r","s">>}],
    [ent |-> <<"v","e","n","d","o","r","s">>, words |-> {<<"v","e","n","d","o","r">>, <<"v","e","n","d","o","r","s">>, <<"s","u","p","p","l","i","e","r">>, <<"s","u","p","p","l","i","e","r","s">>}],
    [ent |-> <<"i","t","e","m","s">>,   words |-> {<<"i","t","e","m">>, <<"i","t","e","m","s">>, <<"p","r","o","d","u","c","t">>, <<"s","k","u">>}],
    [ent |-> <<"l","e","d","g","e","r">>,  words |-> {<<"g","l">>, <<"g","/","l">>, <<"l","e","d","g","e","r">>, <<"g","e","n","e","r","a","l"," ","l","e","d","g","e","r">>, <<"j","o","u","r","n","a","l">>}] >>

COL_COMMON == "Common"

COL_KEYWORD == "Keyword / Search Term"

COL_REPORT == "Database/Report Location"

COL_FULLKEY == "Full Information Key"

COL_ENTITY == "Entity Type"

COL_CANON == "Canonical Field"

COL_SYNONYMS == "Synonyms / Ask Phrases"

\* ---------- Python objects ----------
PyStr(s) == [type |-> "str", val |-> s]

PyNone == [type |-> "NoneType", val |-> <<>>]

PyNaN == [type |-> "float", val |-> <<>>]

\* str(x): a str is itself, NaN prints as "nan", None as "None"
str(x) ==
    CASE x.type = "str" -> x.val
      [] x.type = "float" -> <<"n","a","n">>
      [] x.type = "NoneType" -> <<"N","o","n","e">>

\* ---------- Characters ----------
UpperCase == <<"A","B","C","D","E","F","G","H","I","J","K","L","M","N","O","P","Q","R","S","T","U","V","W","X","Y","Z">>

LowerCase == <<"a","b","c","d","e","f","g","h","i","j","k","l","m","n","o","p","q","r","s","t","u","v","w","x","y","z">>

Digits == {"0","1","2","3","4","5","6","7","8","9"}

Whitespace == {" ", "\t", "\n"}

Range(s) == {s[i] : i \in 1..Len(s)}

SetMin(S) == CHOOSE x \in S : \A y \in S : x <= y

SetMax(S) == CHOOSE x \in S : \A y \in S : x >= y

\* the lowercase letter of each uppercase letter
ToLower == [c \in Range(UpperCase) |->
               LowerCase[CHOOSE k \in 1..Len(UpperCase) : UpperCase[k] = c]]

\* str.lower()
lower(s) == [i \in 1..Len(s) |-> IF s[i] \in DOMAIN ToLower THEN ToLower[s[i]] ELSE s[i]]

\* str.strip()
strip(s) ==
    LET keep == {i \in 1..Len(s) : s[i] \notin Whitespace}
    IN  IF keep = {} THEN <<>> ELSE SubSeq(s, SetMin(keep), SetMax(keep))

\* the class [a-z0-9\s,/-]
Class == Range(LowerCase) \cup Digits \cup Whitespace \cup {",", "/", "-"}

InClass(c) == c \in Class

\* replaces by nothing where the code replaces by a space
SubOutOfClass_Deleting(s) == SelectSeq(s, InClass)

\* re.sub(r"[^a-z0-9\s,/-]", " ", text)
SubOutOfClass(s) == [i \in 1..Len(s) |-> IF InClass(s[i]) THEN s[i] ELSE " "]

\* str.replace(old, new) for one-character old and new
replace(s, old, new) == [i \in 1..Len(s) |-> IF s[i] = old THEN new ELSE s[i]]

\* re.sub(r"\s+", " ", text)
RECURSIVE SubWhitespaceRuns(_)
SubWhitespaceRuns(s) ==
    IF s = <<>> THEN <<>>
    ELSE IF s[1] \in Whitespace
         THEN LET rest == {i \in 2..Len(s) : s[i] \notin Whitespace}
              IN  <<" ">> \o (IF rest = {} THEN <<>>
                              ELSE SubWhitespaceRuns(SubSeq(s, SetMin(rest), Len(s))))
         ELSE <<s[1]>> \o SubWhitespaceRuns(Tail(s))

\* the same steps with lines 38 and 39 exchanged
normalize_SwappedSteps(text_) ==
    LET t0 == IF text_.type = "NoneType" \/ text_.val = <<>> THEN <<>> ELSE text_.val
        t1 == strip(lower(t0))
        t2 == SubOutOfClass(t1)
        t3 == strip(SubWhitespaceRuns(t2))
    IN  replace(replace(t3, "/", " "), "-", " ")

normalize(text_) ==
    LET t0 == IF text_.type = "NoneType" \/ text_.val = <<>> THEN <<>> ELSE text_.val
        t1 == strip(lower(t0))
        t2 == SubOutOfClass(t1)
        t3 == replace(replace(t2, "/", " "), "-", " ")
    IN  strip(SubWhitespaceRuns(t3))


\* ---------- Text utilities ----------
\* str.split(): the words between runs of whitespace
RECURSIVE split(_)
split(s) ==
    LET keep == {i \in 1..Len(s) : s[i] \notin Whitespace}
    IN  IF keep = {} THEN <<>>
        ELSE LET a == SetMin(keep)
                 b == SetMin({j \in a..Len(s) : j = Len(s) \/ s[j+1] \in Whitespace})
             IN  <<SubSeq(s, a, b)>> \o split(SubSeq(s, b + 1, Len(s)))

\* str.split(","): every comma separates, empty pieces are kept
RECURSIVE split_comma(_)
split_comma(s) ==
    LET commas == {i \in 1..Len(s) : s[i] = ","}
    IN  IF commas = {} THEN <<s>>
        ELSE LET c == SetMin(commas)
             IN  <<SubSeq(s, 1, c - 1)>> \o split_comma(SubSeq(s, c + 1, Len(s)))

\* sub in s
In(sub, s) ==
    \E i \in 0..(Len(s) - Len(sub)) : SubSeq(s, i + 1, i + Len(sub)) = sub

tokenize(text_) ==
    {w \in Range(split(normalize(text_))) : Len(w) >= 3 /\ w \notin STOPWORDS}

LongEnough(p) == Len(p) >= 3

phrase_list(synonyms) ==
    LET s0 == IF synonyms.type = "NoneType" \/ synonyms.val = <<>> THEN <<>> ELSE synonyms.val
        raw == split_comma(s0)
        cleaned == [i \in 1..Len(raw) |-> normalize(PyStr(raw[i]))]
    IN  SelectSeq(cleaned, LongEnough)

\* ---------- Scoring ----------
max(a, b) == IF a >= b THEN a ELSE b

min(a, b) == IF a <= b THEN a ELSE b

\* row.get(key, default)
get(row, key, default) == IF key \in DOMAIN row THEN row[key] ELSE default

\* the last matching phrase decides, not the best one
RECURSIVE PhraseLoop_LastWins(_, _, _)
PhraseLoop_LastWins(phrs, qn, best_phrase) ==
    IF phrs = <<>> THEN best_phrase
    ELSE LET phr == Head(phrs)
         IN  PhraseLoop_LastWins(Tail(phrs), qn,
                IF phr # <<>> /\ In(phr, qn)
                THEN 8 + (Len(phr) \div 10)
                ELSE best_phrase)

\* lines 68-70: the loop over phrase_list(synonyms)
RECURSIVE PhraseLoop(_, _, _)
PhraseLoop(phrs, qn, best_phrase) ==
    IF phrs = <<>> THEN best_phrase
    ELSE LET phr == Head(phrs)
         IN  PhraseLoop(Tail(phrs), qn,
                IF phr # <<>> /\ In(phr, qn)
                THEN max(best_phrase, 8 + (Len(phr) \div 10))
                ELSE best_phrase)

\* no cap at 6
TokenPoints_NoCap(overlap) == overlap * 2

\* line 77
TokenPoints(overlap) == min(6, overlap * 2)

\* goes on to the later groups after a match
RECURSIVE EntityLoop_NoBreak(_, _, _)
EntityLoop_NoBreak(i, qn, entity) ==
    IF i > Len(ENTITY_HINTS) THEN [delta |-> 0, entity_bonus |-> 0]
    ELSE LET rest == EntityLoop_NoBreak(i + 1, qn, entity)
         IN  IF \E w \in ENTITY_HINTS[i].words : In(w, qn)
             THEN IF ENTITY_HINTS[i].ent = entity
                  THEN [delta |-> rest.delta + 4, entity_bonus |-> 4]
                  ELSE [delta |-> rest.delta - 1, entity_bonus |-> rest.entity_bonus]
             ELSE rest

\* lines 82-89: the loop over ENTITY_HINTS.items(), from the i-th group on
RECURSIVE EntityLoop(_, _, _)
EntityLoop(i, qn, entity) ==
    IF i > Len(ENTITY_HINTS) THEN [delta |-> 0, entity_bonus |-> 0]
    ELSE IF \E w \in ENTITY_HINTS[i].words : In(w, qn)
         THEN IF ENTITY_HINTS[i].ent = entity
              THEN [delta |-> 4, entity_bonus |-> 4]
              ELSE [delta |-> -1, entity_bonus |-> 0]
         ELSE EntityLoop(i + 1, qn, entity)

score_row(qn, qt, row) ==
    LET common   == normalize(PyStr(str(get(row, COL_COMMON, PyStr(<<>>)))))
        keyword  == normalize(PyStr(str(get(row, COL_KEYWORD, PyStr(<<>>)))))
        report   == normalize(PyStr(str(get(row, COL_REPORT, PyStr(<<>>)))))
        synonyms == str(get(row, COL_SYNONYMS, PyStr(<<>>)))
        entity   == normalize(PyStr(str(get(row, COL_ENTITY, PyStr(<<>>)))))
        best_phrase == PhraseLoop(phrase_list(PyStr(synonyms)), qn, 0)
        row_tokens == tokenize(PyStr(common)) \cup tokenize(PyStr(keyword))
                        \cup tokenize(PyStr(report))
        tok_pts == TokenPoints(Cardinality(qt \cap row_tokens))
        hint == EntityLoop(1, qn, entity)
    IN  [score |-> best_phrase + tok_pts + hint.delta,
         why |-> [syn_phrase_hit |-> best_phrase, token_overlap |-> tok_pts,
                  entity_bonus |-> hint.entity_bonus]]

\* ---------- Ranking ----------
\* line 120-121: the tuple (s, why, row) of one row
Entry(qn, qt, row) == LET r == score_row(qn, qt, row) IN <<r.score, r.why, row>>

\* puts an entry before the entries of the same score
InsertDesc_BeforeEqual(sorted, x) ==
    LET pos == Cardinality({i \in 1..Len(sorted) : sorted[i][1] > x[1]})
    IN  SubSeq(sorted, 1, pos) \o <<x>> \o SubSeq(sorted, pos + 1, Len(sorted))

\* one step of the stable descending sort: x goes after every entry whose key is
\* not smaller
InsertDesc(sorted, x) ==
    LET pos == Cardinality({i \in 1..Len(sorted) : sorted[i][1] >= x[1]})
    IN  SubSeq(sorted, 1, pos) \o <<x>> \o SubSeq(sorted, pos + 1, Len(sorted))

\* list.sort(key=lambda x: x[0], reverse=True): stable, equal keys keep their order
RECURSIVE sort_reverse(_)
sort_reverse(list) ==
    IF list = <<>> THEN <<>>
    ELSE InsertDesc(sort_reverse(SubSeq(list, 1, Len(list) - 1)), list[Len(list)])

\* takes k for the last index, one entry too many
slice_to_Inclusive(list, k) == SubSeq(list, 1, min(k + 1, Len(list)))

\* list[:k]
slice_to(list, k) ==
    IF k >= 0 THEN SubSeq(list, 1, min(k, Len(list)))
    ELSE SubSeq(list, 1, max(0, Len(list) + k))

\* ---------- The tables and questions of the runs ----------
Row(common, keyword, report, fullkey, entity, canon, synonyms) ==
    (COL_COMMON :> common) @@ (COL_KEYWORD :> keyword) @@ (COL_REPORT :> report)
    @@ (COL_FULLKEY :> fullkey) @@ (COL_ENTITY :> entity) @@ (COL_CANON :> canon)
    @@ (COL_SYNONYMS :> synonyms)

RowZone ==
    Row(PyStr(<<"A","g","e","n","c","y"," ","D","e","l","i","v","e","r","y"," ","Z","o","n","e">>), PyStr(<<"Z","o","n","e"," ","C","o","d","e","s">>), PyStr(<<"A","g","e","n","c","y","/","M","a","s","t","e","r">>),
        PyStr(<<"A","G","Y",".","Z","O","N","E">>), PyStr(<<"A","g","e","n","c","y">>), PyStr(<<"z","o","n","e","_","c","o","d","e">>),
        PyStr(<<"z","o","n","e",","," ","A","g","e","n","c","y"," ","d","e","l","i","v","e","r","y","-","z","o","n","e"," ","c","o","d","e","s",","," ","d","e","l","i","v","e","r","y"," ","z","o","n","e">>))

RowDonorZone ==
    Row(PyStr(<<"D","o","n","o","r"," ","D","e","l","i","v","e","r","y"," ","Z","o","n","e">>), PyStr(<<"Z","o","n","e">>), PyStr(<<"D","o","n","o","r","s">>),
        PyStr(<<"D","N","R",".","Z","O","N","E">>), PyStr(<<"D","o","n","o","r","s">>), PyStr(<<"z","o","n","e">>),
        PyStr(<<"d","e","l","i","v","e","r","y"," ","z","o","n","e">>))

\* a line of the CSV with every cell empty: read_csv delivers NaN
RowEmpty == Row(PyNaN, PyNaN, PyNaN, PyNaN, PyNaN, PyNaN, PyNaN)

RowItem ==
    Row(PyStr(<<"I","t","e","m"," ","S","K","U">>), PyStr(<<"S","K","U">>), PyStr(<<"I","t","e","m","s","-","L","i","s","t">>),
        PyStr(<<"I","T","M",".","S","K","U">>), PyStr(<<"i","t","e","m","s">>), PyStr(<<"s","k","u">>),
        PyStr(<<"i","t","e","m"," ","v","e","n","d","o","r",",","s","k","u">>))

RowLedger ==
    Row(PyStr(<<"G","/","L"," ","J","o","u","r","n","a","l">>), PyStr(<<"J","o","u","r","n","a","l"," ","N","o",".">>), PyStr(<<"G","e","n","e","r","a","l"," ","L","e","d","g","e","r">>),
        PyStr(<<"G","L",".","J","N","L">>), PyStr(<<"L","e","d","g","e","r">>), PyNaN,
        PyStr(<<"G","/","L",","," ","j","o","u","r","n","a","l"," ","e","n","t","r","y">>))

RowPool == {RowZone, RowDonorZone, RowEmpty, RowItem, RowLedger}

Tables == UNION {[1..n -> RowPool] : n \in 0..MaxRows}

required_cols == {COL_COMMON, COL_KEYWORD, COL_REPORT, COL_FULLKEY, COL_ENTITY,
                  COL_CANON, COL_SYNONYMS}

Headers == {required_cols, required_cols \ {COL_SYNONYMS}}

QueryExample == <<"W","h","e","r","e"," ","c","a","n"," ","I"," ","f","i","n","d"," ","a","g","e","n","c","y"," ","d","e","l","i","v","e","r","y"," ","z","o","n","e"," ","c","o","d","e","s","?">>

QueryFinance == <<"F","i","n","a","n","c","e"," ","G","/","L"," ","j","o","u","r","n","a","l">>

QueryItemVendor == <<"i","t","e","m"," ","v","e","n","d","o","r">>

QueryDonor == <<"d","o","n","o","r"," ","n","a","m","e">>

QueryZoneList == <<"z","o","n","e"," ","l","i","s","t">>

Queries == {<<>>, QueryExample, QueryFinance, QueryItemVendor, QueryDonor, QueryZoneList}

SliderMin == 1

SliderMax == 10

\* the tuples of the questions and rows above, each evaluated once
EntryOnRuns ==
    [k \in {<<normalize(PyStr(question)), tokenize(PyStr(question))>> :
                question \in Queries \ {<<>>}},
     row \in RowPool |-> Entry(k[1], k[2], row)]

\* lines 118-121: one (s, why, row) per row, in the order of the table
ScoreAll(qn, qt, rows) == [i \in 1..Len(rows) |-> EntryOnRuns[<<qn, qt>>, rows[i]]]

\* ---------- The script, top to bottom ----------
Init ==
    /\ pc = "file_uploader"
    /\ columns = {} /\ df = <<>> /\ q = <<>> /\ top_k = 3
    /\ q_norm = <<>> /\ q_tokens = {} /\ scored = <<>> /\ best = <<>>
    /\ shown = <<>> /\ err = "none"
    /\ text = PyNone /\ once = <<>> /\ twice = <<>>

\* lines 98-100: nothing uploaded yet
NoUpload ==
    /\ pc = "file_uploader"
    /\ pc' = "stopped"
    /\ UNCHANGED appVars /\ UNCHANGED normVars

\* line 102
ReadCsv ==
    /\ pc = "file_uploader"
    /\ \E header \in Headers, table \in Tables :
          /\ columns' = header
          /\ df' = [i \in 1..Len(table) |-> [c \in header |-> table[i][c]]]
    /\ pc' = "validate"
    /\ UNCHANGED <<q, top_k, q_norm, q_tokens, scored, best, shown, err>>
    /\ UNCHANGED normVars

missing == required_cols \ columns

\* lines 105-109
MissingColumns ==
    /\ pc = "validate"
    /\ missing # {}
    /\ err' = "Missing columns"
    /\ pc' = "stopped"
    /\ UNCHANGED <<columns, df, q, top_k, q_norm, q_tokens, scored, best, shown>>
    /\ UNCHANGED normVars

\* lines 105-112: the columns are there, the widgets return their values
Widgets ==
    /\ pc = "validate"
    /\ missing = {}
    /\ \E question \in Queries, k \in SliderMin..min(SliderMax, MaxTopK) :
          /\ q' = question
          /\ top_k' = k
    /\ pc' = "query"
    /\ UNCHANGED <<columns, df, q_norm, q_tokens, scored, best, shown, err>>
    /\ UNCHANGED normVars

\* line 114: an empty question, nothing is ranked
NoQuery ==
    /\ pc = "query"
    /\ q = <<>>
    /\ pc' = "done"
    /\ UNCHANGED appVars /\ UNCHANGED normVars

\* lines 114-124
Rank ==
    /\ pc = "query"
    /\ q # <<>>
    /\ LET qn == normalize(PyStr(q))
           qt == tokenize(PyStr(q))
           sorted == sort_reverse(ScoreAll(qn, qt, df))
       IN  /\ q_norm' = qn
           /\ q_tokens' = qt
           /\ scored' = sorted
           /\ best' = slice_to(sorted, top_k)
    /\ pc' = "ranked"
    /\ UNCHANGED <<columns, df, q, top_k, shown, err>>
    /\ UNCHANGED normVars

TopMatches ==
    [rank \in 1..Len(best) |->
        [rank |-> rank, common |-> best[rank][3][COL_COMMON],
         table |-> best[rank][3][COL_REPORT], column |-> best[rank][3][COL_KEYWORD],
         key |-> best[rank][3][COL_FULLKEY]]]

\* lines 126-139, best[0] exists
Show ==
    /\ pc = "ranked"
    /\ best # <<>>
    /\ shown' = TopMatches \o
                  <<[common |-> best[1][3][COL_COMMON], table |-> best[1][3][COL_REPORT]]>>
    /\ pc' = "done"
    /\ UNCHANGED <<columns, df, q, top_k, q_norm, q_tokens, scored, best, err>>
    /\ UNCHANGED normVars

\* lines 126-136, best is empty: best[0] raises IndexError
ShowIndexError ==
    /\ pc = "ranked"
    /\ best = <<>>
    /\ shown' = TopMatches
    /\ err' = "IndexError"
    /\ pc' = "raised"
    /\ UNCHANGED <<columns, df, q, top_k, q_norm, q_tokens, scored, best>>
    /\ UNCHANGED normVars

Next ==
    \/ NoUpload
    \/ ReadCsv
    \/ MissingColumns
    \/ Widgets
    \/ NoQuery
    \/ Rank
    \/ Show
    \/ ShowIndexError

Spec == Init /\ [][Next]_vars

\* ---------- score_row on its own ----------
Commons == {PyStr(<<"A","g","e","n","c","y"," ","D","e","l","i","v","e","r","y"," ","Z","o","n","e">>), PyStr(<<"I","t","e","m"," ","S","K","U">>), PyNaN}

Keywords == {PyStr(<<"Z","o","n","e"," ","C","o","d","e","s">>), PyNaN}

Entities == {PyStr(<<"A","g","e","n","c","y">>), PyStr(<<"D","o","n","o","r","s">>), PyStr(<<"v","e","n","d","o","r","s">>), PyStr(<<"i","t","e","m","s">>),
             PyStr(<<"L","e","d","g","e","r">>), PyNaN}

SynonymLists == {PyStr(<<"z","o","n","e",","," ","A","g","e","n","c","y"," ","d","e","l","i","v","e","r","y","-","z","o","n","e"," ","c","o","d","e","s",","," ","d","e","l","i","v","e","r","y"," ","z","o","n","e">>),
                 PyStr(<<"d","e","l","i","v","e","r","y"," ","z","o","n","e">>), PyStr(<<"i","t","e","m"," ","v","e","n","d","o","r",",","s","k","u">>),
                 PyStr(<<"G","/","L",","," ","j","o","u","r","n","a","l"," ","e","n","t","r","y">>), PyNaN}

ScoreRows ==
    {Row(c, k, k, PyNaN, e, PyNaN, s) :
        c \in Commons, k \in Keywords, e \in Entities, s \in SynonymLists}

ScoreInit ==
    /\ pc = "question"
    /\ q \in Queries \ {<<>>}
    /\ df \in {<<row>> : row \in ScoreRows \cup RowPool}
    /\ columns = required_cols /\ top_k = 3
    /\ q_norm = <<>> /\ q_tokens = {} /\ scored = <<>> /\ best = <<>>
    /\ shown = <<>> /\ err = "none"
    /\ text = PyNone /\ once = <<>> /\ twice = <<>>

\* lines 115-116
NormalizeQuery ==
    /\ pc = "question"
    /\ q_norm' = normalize(PyStr(q))
    /\ q_tokens' = tokenize(PyStr(q))
    /\ pc' = "row"
    /\ UNCHANGED <<columns, df, q, top_k, scored, best, shown, err>>
    /\ UNCHANGED normVars

\* lines 119-121 for the one row
ScoreRow ==
    /\ pc = "row"
    /\ scored' = <<Entry(q_norm, q_tokens, df[1])>>
    /\ pc' = "scored"
    /\ UNCHANGED <<columns, df, q, top_k, q_norm, q_tokens, best, shown, err>>
    /\ UNCHANGED normVars

ScoreNext == NormalizeQuery \/ ScoreRow

SpecScore == ScoreInit /\ [][ScoreNext]_vars

\* ---------- normalize on its own ----------
Alphabet == {"a", "B", "7", " ", "\t", ",", "/", "-", "."}

Strings(n) == UNION {[1..k -> Alphabet] : k \in 0..n}

NormInit ==
    /\ pc = "text"
    /\ text \in {PyNone} \cup {PyStr(s) : s \in Strings(MaxLen)}
    /\ once = <<>> /\ twice = <<>>
    /\ columns = {} /\ df = <<>> /\ q = <<>> /\ top_k = 1
    /\ q_norm = <<>> /\ q_tokens = {} /\ scored = <<>> /\ best = <<>>
    /\ shown = <<>> /\ err = "none"

Normalize ==
    /\ pc = "text"
    /\ once' = normalize(text)
    /\ pc' = "once"
    /\ UNCHANGED <<text, twice>> /\ UNCHANGED appVars

Renormalize ==
    /\ pc = "once"
    /\ twice' = normalize(PyStr(once))
    /\ pc' = "twice"
    /\ UNCHANGED <<text, once>> /\ UNCHANGED appVars

NormNext == Normalize \/ Renormalize

SpecNorm == NormInit /\ [][NormNext]_vars

\* ---------- Properties of the ranking block (Spec) ----------
\* the ranking block has run in this script run
Ranked == pc = "ranked" \/ (pc \in {"done", "raised"} /\ q # <<>>)

\* the place of the j-th entry of es in a stable descending order by score
StablePlace(es, j) ==
    Cardinality({i \in 1..Len(es) :
        es[i][1] > es[j][1] \/ (es[i][1] = es[j][1] /\ i < j)}) + 1

\* es ordered by score descending, entries of equal score in the order of es
IsStableDescending(sorted, es) ==
    /\ Len(sorted) = Len(es)
    /\ \A j \in 1..Len(es) : sorted[StablePlace(es, j)] = es[j]

\* C1: the ranked result is the first min(top_k, n) entries of the rows ordered
\* by their score_row score descending, rows of equal score in the order of the
\* table; it has at most top_k entries and at most n.
C1_RankIsStableTopK ==
    Ranked =>
        LET n == Len(df)
            es == ScoreAll(q_norm, q_tokens, df)
        IN  /\ Len(best) = min(top_k, n)
            /\ Len(best) <= top_k /\ Len(best) <= n
            /\ \A j \in 1..n :
                  StablePlace(es, j) <= top_k => best[StablePlace(es, j)] = es[j]

\* a table of three rows, two different rows of equal score at the first two
\* places, cut to two
C1_Witness ==
    /\ pc = "ranked" /\ Len(df) = 3 /\ top_k = 2 /\ Len(best) = 2
    /\ best[1][1] = best[2][1] /\ best[1][3] # best[2][3]
    /\ scored[3][1] < best[2][1]

\* C3 as stated: a non-empty question on a table of zero rows ends with an
\* empty result and no error.
C3_EmptyTableNoError ==
    (df = <<>> /\ q # <<>> /\ pc \in {"ranked", "done", "raised"}) =>
        (best = <<>> /\ err = "none")

Reorderings(n) == {p \in [1..n -> 1..n] : \A i, j \in 1..n : p[i] = p[j] => i = j}

Permuted(rows, p) == [i \in 1..Len(rows) |-> rows[p[i]]]

\* the bag of (row, score) pairs of a list of entries, as a count per pair
Count(es, row, s) == Cardinality({i \in 1..Len(es) : es[i][3] = row /\ es[i][1] = s})

SamePairs(es1, es2) ==
    \A e \in Range(es1) \cup Range(es2) : Count(es1, e[3], e[1]) = Count(es2, e[3], e[1])

\* C5 as stated: for every top_k the ranked result of any permutation of the
\* table has the same (row, score) pairs as the ranked result of the table.
C5_PermutedTopKSamePairs ==
    pc = "ranked" =>
        \A p \in Reorderings(Len(df)) :
            LET rows2 == Permuted(df, p)
                best2 == slice_to(sort_reverse(ScoreAll(q_norm, q_tokens, rows2)), top_k)
            IN  SamePairs(best2, best)

\* C5, amended: before the cut to top_k, ranking any permutation of the table
\* gives the same (row, score) pairs as ranking the table, rows of equal score
\* in the order they have in the permuted table.
C5_PermutedSamePairsBeforeCut ==
    pc = "ranked" =>
        \A p \in Reorderings(Len(df)) :
            LET rows2 == Permuted(df, p)
                es2 == ScoreAll(q_norm, q_tokens, rows2)
                scored2 == sort_reverse(es2)
            IN  /\ SamePairs(scored2, scored)
                /\ IsStableDescending(scored2, es2)
                /\ (top_k >= Len(df) => SamePairs(slice_to(scored2, top_k), best))

\* three rows, two different ones of equal score, a third of another score
C5_Witness ==
    /\ pc = "ranked" /\ Len(df) = 3 /\ top_k = 1
    /\ scored[1][1] > scored[2][1]
    /\ scored[2][1] = scored[3][1] /\ scored[2][3] # scored[3][3]

\* ---------- Properties of score_row (SpecScore) ----------
\* the groups of ENTITY_HINTS with a trigger occurring in qn
HintedGroups(qn) ==
    {i \in 1..Len(ENTITY_HINTS) : \E w \in ENTITY_HINTS[i].words : In(w, qn)}

\* the adjustment the first hinted group gives a row of this entity tag
FirstGroupAdjustment(qn, entity) ==
    IF HintedGroups(qn) = {} THEN 0
    ELSE IF ENTITY_HINTS[SetMin(HintedGroups(qn))].ent = entity THEN 4 ELSE -1

EntityOf(row) == normalize(PyStr(str(row[COL_ENTITY])))

\* every one of common, keyword, report and synonyms is a missing cell
AllMissing(row) ==
    \A c \in {COL_COMMON, COL_KEYWORD, COL_REPORT, COL_SYNONYMS} : row[c] = PyNaN

\* C4 as stated: a row whose common, keyword, report and synonyms are all
\* missing gets syn_phrase_hit = 0 and token_overlap = 0, and its score is the
\* entity adjustment.
C4_MissingFieldsScoreNothing ==
    (pc = "scored" /\ AllMissing(df[1])) =>
        /\ scored[1][2].syn_phrase_hit = 0
        /\ scored[1][2].token_overlap = 0
        /\ scored[1][1] = FirstGroupAdjustment(q_norm, EntityOf(df[1]))

\* C7: the entity adjustment is decided by the first group, in the order agency,
\* donors, vendors, items, ledger, with a trigger occurring in q_norm: +4 and
\* entity_bonus = 4 if its name is the row's normalized entity tag, else -1 and
\* entity_bonus = 0; no group hinted gives 0.
C7_FirstHintedGroupDecides ==
    /\ [i \in 1..Len(ENTITY_HINTS) |-> ENTITY_HINTS[i].ent] =
          <<<<"a","g","e","n","c","y">>, <<"d","o","n","o","r","s">>, <<"v","e","n","d","o","r","s">>, <<"i","t","e","m","s">>, <<"l","e","d","g","e","r">>>>
    /\ pc = "scored" =>
          LET s == scored[1][1]
              why == scored[1][2]
              adj == FirstGroupAdjustment(q_norm, EntityOf(df[1]))
          IN  /\ s - why.syn_phrase_hit - why.token_overlap = adj
              /\ why.entity_bonus = (IF adj = 4 THEN 4 ELSE 0)

\* "item vendor" hints at vendors and at items; a row tagged items gets -1
C7_Witness ==
    /\ pc = "scored" /\ q_norm = <<"i","t","e","m"," ","v","e","n","d","o","r">>
    /\ HintedGroups(q_norm) = {3, 4}
    /\ EntityOf(df[1]) = <<"i","t","e","m","s">>
    /\ scored[1][1] - scored[1][2].syn_phrase_hit - scored[1][2].token_overlap = -1
    /\ scored[1][2].entity_bonus = 0

PhrasesOf(row) == Range(phrase_list(PyStr(str(row[COL_SYNONYMS]))))

\* C8: syn_phrase_hit is the greatest 8 + floor(len(p)/10) over the phrases p
\* of phrase_list(synonyms) occurring in q_norm, 0 if none occurs; a row with
\* the phrase "delivery zone" gets at least 9 on the example question.
C8_PhraseHitIsMaximum ==
    pc = "scored" =>
        LET hit == scored[1][2].syn_phrase_hit
            pts == {8 + (Len(p) \div 10) : p \in {x \in PhrasesOf(df[1]) : In(x, q_norm)}}
        IN  /\ hit = SetMax(pts \cup {0})
            /\ (q = QueryExample /\ <<"d","e","l","i","v","e","r","y"," ","z","o","n","e">> \in PhrasesOf(df[1])) => hit >= 9

\* the example question on a row listing a longer phrase before "delivery zone"
C8_Witness ==
    /\ pc = "scored" /\ q = QueryExample
    /\ phrase_list(PyStr(str(df[1][COL_SYNONYMS]))) =
          <<<<"z","o","n","e">>, <<"a","g","e","n","c","y"," ","d","e","l","i","v","e","r","y"," ","z","o","n","e"," ","c","o","d","e","s">>, <<"d","e","l","i","v","e","r","y"," ","z","o","n","e">>>>
    /\ scored[1][2].syn_phrase_hit = 10

\* the words of s: the longest stretches without whitespace
WordsOf(s) ==
    {SubSeq(s, ij[1], ij[2]) :
        ij \in {x \in (1..Len(s)) \X (1..Len(s)) :
                  /\ x[1] <= x[2]
                  /\ \A k \in x[1]..x[2] : s[k] \notin Whitespace
                  /\ (x[1] = 1 \/ s[x[1] - 1] \in Whitespace)
                  /\ (x[2] = Len(s) \/ s[x[2] + 1] \in Whitespace)}}

TokensOf(s) == {w \in WordsOf(s) : Len(w) >= 3 /\ w \notin STOPWORDS}

RowTokens(row) ==
    UNION {TokensOf(normalize(PyStr(str(row[c])))) : c \in {COL_COMMON, COL_KEYWORD, COL_REPORT}}

\* C9: token_overlap is min(6, 2 * |q_tokens \cap T|), T the tokens of common,
\* keyword and report; a token is a word of the normalized text of length >= 3
\* that is no stopword; the sub-score is one of 0, 2, 4, 6.
C9_TokenOverlapCapped ==
    pc = "scored" =>
        LET pts == scored[1][2].token_overlap
            n == Cardinality(q_tokens \cap RowTokens(df[1]))
        IN  /\ q_tokens = TokensOf(q_norm)
            /\ pts = (IF 2 * n <= 6 THEN 2 * n ELSE 6)
            /\ pts \in {0, 2, 4, 6}

\* four shared tokens, capped at 6
C9_Witness ==
    /\ pc = "scored"
    /\ Cardinality(q_tokens \cap RowTokens(df[1])) = 4
    /\ scored[1][2].token_overlap = 6

\* ---------- Properties of normalize (SpecNorm) ----------
\* C6: normalize(normalize(s)) = normalize(s) for every s, the empty and the
\* missing one included.
C6_NormalizeIdempotent == pc = "twice" => twice = once

\* a text that normalize changes: case, slash, stop and leading blank
C6_Witness ==
    /\ pc = "twice"
    /\ text = PyStr(<<" ","B","/">>)
    /\ once = <<"b">> /\ twice = <<"b">>

WordChars == Range(LowerCase) \cup Digits \cup {","}

\* the longest stretches of s made of lowercase letters, digits and commas,
\* from position i on, joined by single spaces
RECURSIVE JoinedStretches(_, _)
JoinedStretches(s, i) ==
    LET starts == {k \in i..Len(s) : s[k] \in WordChars}
    IN  IF starts = {} THEN <<>>
        ELSE LET a == SetMin(starts)
                 b == SetMin({k \in a..Len(s) : k = Len(s) \/ s[k + 1] \notin WordChars})
                 rest == JoinedStretches(s, b + 1)
             IN  SubSeq(s, a, b) \o (IF rest = <<>> THEN <<>> ELSE <<" ">> \o rest)

\* only lowercase letters, digits, commas and single spaces, none at the ends
Canonical(s) ==
    /\ Range(s) \subseteq WordChars \cup {" "}
    /\ s # <<>> => (s[1] # " " /\ s[Len(s)] # " ")
    /\ \A k \in 1..(Len(s) - 1) : ~(s[k] = " " /\ s[k + 1] = " ")

\* the text as the code sees it: None is the empty text
TextOf(x) == IF x.type = "NoneType" THEN <<>> ELSE x.val

\* the procedure of C10 as stated: every character outside the class is
\* deleted, its neighbours become adjacent
NormalizedByDeleting(s) ==
    LET t1 == SelectSeq(lower(s), InClass)
        t2 == replace(replace(t1, "/", " "), "-", " ")
    IN  strip(SubWhitespaceRuns(t2))

\* C10 as stated: normalize deletes the characters outside the class.
C10_NormalizeDeletes ==
    pc \in {"once", "twice"} =>
        (once = NormalizedByDeleting(TextOf(text)) /\ Canonical(once))

\* C10, amended: every character that is not a lowercase letter, digit, or comma
\* after lowercasing separates: the result is the stretches of letters, digits
\* and commas of the lowercased text in order, joined by single spaces, and
\* holds only lowercase letters, digits, commas and single spaces.
C10_NormalizeSeparates ==
    pc \in {"once", "twice"} =>
        (once = JoinedStretches(lower(TextOf(text)), 1) /\ Canonical(once))

\* a stop between two letters becomes a space
C10_Witness ==
    /\ pc = "once"
    /\ text = PyStr(<<"a",".","B">>)
    /\ once = <<"a"," ","b">>

====
